---- MODULE Spec2Model ----
(***************************************************************************)
(* A model of galnet_rss_publisher.py: the message paginator, the webhook  *)
(* target resolver, the item filter / content builder, and the             *)
(* load - fetch - publish - prune - save pipeline of lambda_handler.       *)
(*                                                                         *)
(* Python strings are modelled as sequences of one-character strings.      *)
(* Python indices are kept 0-based: s[i] in Python is s[i+1] here.         *)
(***************************************************************************)
EXTENDS Integers, Sequences, FiniteSets, TLC

(***************************************************************************)
(* Program constants                                                       *)
(***************************************************************************)
MAX_MSG_LEN == 2000

MAX_ARTICLES_SEEN == 30

\* U+2014, one character; written with an ASCII stand-in of the same length.
EMDASH == "~"

GALNET_BASE_URL ==
  <<"h","t","t","p","s",":","/","/","c","o","m","m","u","n","i","t","y",".",
    "e","l","i","t","e","d","a","n","g","e","r","o","u","s",".","c","o","m",
    "/","e","n","/","g","a","l","n","e","t","/","u","i","d">>

\* The backtick, which a TLA+ string cannot hold; written with a stand-in.
BACKTICK == "^"

FENCE == <<BACKTICK, BACKTICK, BACKTICK>>

NL == "\n"

(***************************************************************************)
(* Python string primitives                                                *)
(***************************************************************************)
Min(a, b) == IF a <= b THEN a ELSE b

Max(a, b) == IF a >= b THEN a ELSE b

\* c * n
Rep(c, n) == [k \in 1..n |-> c]

\* s[lo:hi] with Python's clipping of the bounds
Slice(s, lo, hi) == SubSeq(s, Max(lo, 0) + 1, Min(hi, Len(s)))

\* s[lo:]
SliceFrom(s, lo) == Slice(s, lo, Len(s))

\* s.startswith(pre)
StartsWith(s, pre) == Len(s) >= Len(pre) /\ SubSeq(s, 1, Len(pre)) = pre

\* sub occurs in s at 0-based index i
MatchAt(s, sub, i) ==
  sub = <<>> \/ (s[i + 1] = sub[1] /\ \A k \in 2..Len(sub) : s[i + k] = sub[k])

\* highest index in lo..hi at which sub occurs in s, or -1
RECURSIVE RFindIn(_, _, _, _)
RFindIn(s, sub, lo, hi) ==
  IF lo > hi \/ ~(\E i \in lo..hi : MatchAt(s, sub, i)) THEN -1
  ELSE IF lo = hi THEN lo
  ELSE LET mid == (lo + hi) \div 2
       IN IF \E i \in (mid + 1)..hi : MatchAt(s, sub, i)
          THEN RFindIn(s, sub, mid + 1, hi)
          ELSE RFindIn(s, sub, lo, mid)

\* s.rfind(sub, 0, end): the match must lie wholly inside s[0:end]
rfind(s, sub, end) == RFindIn(s, sub, 0, Min(end, Len(s)) - Len(sub))

\* lowest index in lo..hi at which sub occurs in s, or -1
RECURSIVE FindIn(_, _, _, _)
FindIn(s, sub, lo, hi) ==
  IF lo > hi \/ ~(\E i \in lo..hi : MatchAt(s, sub, i)) THEN -1
  ELSE IF lo = hi THEN lo
  ELSE LET mid == (lo + hi) \div 2
       IN IF \E i \in lo..mid : MatchAt(s, sub, i)
          THEN FindIn(s, sub, lo, mid)
          ELSE FindIn(s, sub, mid + 1, hi)

\* s.find(sub, start)
find(s, sub, start) == FindIn(s, sub, start, Len(s) - Len(sub))

(***************************************************************************)
(* paginate_message                                                        *)
(***************************************************************************)
\* FindCut without the three characters reserved for the closing fence.
FindCutNoReserve(content) ==
  LET p == rfind(content, <<NL, NL>>, MAX_MSG_LEN)
      w == rfind(content, <<" ">>, MAX_MSG_LEN)
  IN IF p >= 0 THEN [idx |-> p, rule |-> "para"]
     ELSE IF w >= 0 THEN [idx |-> w, rule |-> "word"]
     ELSE [idx |-> MAX_MSG_LEN, rule |-> "hard"]

\* FindCut that looks for the last space first.
FindCutWordFirst(content) ==
  LET p == rfind(content, <<NL, NL>>, MAX_MSG_LEN - 3)
      w == rfind(content, <<" ">>, MAX_MSG_LEN - 3)
  IN IF w >= 0 THEN [idx |-> w, rule |-> "word"]
     ELSE IF p >= 0 THEN [idx |-> p, rule |-> "para"]
     ELSE [idx |-> MAX_MSG_LEN - 3, rule |-> "hard"]

\* The index paginate_message cuts at, and the rule that chose it (the rule
\* is bookkeeping of the model; the code keeps only idx).
FindCut(content) ==
  LET p == rfind(content, <<NL, NL>>, MAX_MSG_LEN - 3)
      w == rfind(content, <<" ">>, MAX_MSG_LEN - 3)
  IN IF p >= 0 THEN [idx |-> p, rule |-> "para"]
     ELSE IF w >= 0 THEN [idx |-> w, rule |-> "word"]
     ELSE [idx |-> MAX_MSG_LEN - 3, rule |-> "hard"]

\* How far the remainder starts beyond idx: tested on the character at idx.
SkipAfter(content, idx) ==
  IF content[idx + 1] = NL THEN 2
  ELSE IF content[idx + 1] = " " THEN 1
  ELSE 0

\* Lines 88-96 for the cut c: the chunk appended, the new content, and the
\* bookkeeping of the cut.
CutAt(content, c) ==
  [part |-> Slice(content, 0, c.idx) \o FENCE,
   rest |-> IF Len(content) > c.idx
            THEN FENCE \o <<NL>> \o SliceFrom(content, c.idx + SkipAfter(content, c.idx))
            ELSE <<>>,
   rule |-> c.rule,
   skipped |-> IF Len(content) > c.idx
               THEN Slice(content, c.idx, c.idx + SkipAfter(content, c.idx))
               ELSE <<>>]

\* One iteration of the while loop on content longer than MAX_MSG_LEN.
CutOnce(content) == CutAt(content, FindCut(content))

RECURSIVE paginate_loop(_, _)
paginate_loop(content, parts) ==
  IF Len(content) = 0 THEN parts
  ELSE IF Len(content) <= MAX_MSG_LEN THEN Append(parts, content)
  ELSE LET c == CutOnce(content)
       IN paginate_loop(c.rest, Append(parts, c.part))

paginate_message(content) == paginate_loop(content, <<>>)

(***************************************************************************)
(* Item filter and content builder                                         *)
(***************************************************************************)
\* bleach.clean on one character of text that holds no allowed tag and no
\* character entity: the markup characters are escaped, the others kept.
CleanChar(c) ==
  IF c = "<" THEN <<"&","l","t",";">>
  ELSE IF c = ">" THEN <<"&","g","t",";">>
  ELSE IF c = "&" THEN <<"&","a","m","p",";">>
  ELSE <<c>>

RECURSIVE CleanRange(_, _, _)
CleanRange(s, lo, hi) ==
  IF lo > hi THEN <<>>
  ELSE IF lo = hi THEN CleanChar(s[lo])
  ELSE LET mid == (lo + hi) \div 2
       IN CleanRange(s, lo, mid) \o CleanRange(s, mid + 1, hi)

\* bleach.clean(s)
clean(s) == CleanRange(s, 1, Len(s))

BR_TIGHT == <<"<","b","r","/",">">>

BR_SPACED == <<"<","b","r"," ","/",">">>

\* re.sub(br_pat, '\n', s) with br_pat = '<br ?/>': every match, left to right
RECURSIVE sub_br(_)
sub_br(s) ==
  LET a == find(s, BR_TIGHT, 0)
      b == find(s, BR_SPACED, 0)
      i == IF a < 0 THEN b ELSE IF b < 0 THEN a ELSE Min(a, b)
      n == IF i = a THEN Len(BR_TIGHT) ELSE Len(BR_SPACED)
  IN IF i < 0 THEN s
     ELSE Slice(s, 0, i) \o <<NL>> \o sub_br(SliceFrom(s, i + n))

IsSpace(c) == c \in {" ", NL, "\t", "\r"}

\* number of characters of s[0:hi] that remain after stripping its trailing
\* whitespace, given that s[0:lo] is kept anyway
RECURSIVE KeptLen(_, _, _)
KeptLen(s, lo, hi) ==
  IF lo >= hi THEN lo
  ELSE IF hi = lo + 1 THEN (IF IsSpace(s[hi]) THEN lo ELSE hi)
  ELSE LET mid == (lo + hi) \div 2
           r   == KeptLen(s, mid, hi)
       IN IF r > mid THEN r ELSE KeptLen(s, lo, mid)

\* s.rstrip()
rstrip(s) == SubSeq(s, 1, KeptLen(s, 0, Len(s)))

WEEK_IN_REVIEW == <<"W","e","e","k"," ","i","n"," ","R","e","v","i","e","w">>

filter_item(title, body) == title = WEEK_IN_REVIEW

\* f"**{title}** {EMDASH} [Link]({GALNET_BASE_URL}/{guid})\n```\n{desc}```"
render(guid, title, desc) ==
  <<"*","*">> \o title \o <<"*","*"," ",EMDASH," ","[","L","i","n","k","]","(">>
    \o GALNET_BASE_URL \o <<"/">> \o guid \o <<")", NL>>
    \o FENCE \o <<NL>> \o desc \o FENCE

\* The sanitized description of an item.
sanitize_desc(description) == clean(rstrip(sub_br(description)))

\* for item in items: ... articles_to_publish.append((guid, content)).
\* articles_seen is not changed by this loop.
RECURSIVE process_loop(_, _, _)
process_loop(items, articles_seen, acc) ==
  IF items = <<>> THEN acc
  ELSE LET item  == Head(items)
           guid  == clean(item.guid)
           title == clean(item.title)
           desc  == sanitize_desc(item.description)
       IN IF \E k \in 1..Len(articles_seen) : articles_seen[k] = guid
          THEN process_loop(Tail(items), articles_seen, acc)
          ELSE IF filter_item(title, desc)
          THEN process_loop(Tail(items), articles_seen, acc)
          ELSE process_loop(Tail(items), articles_seen,
                            Append(acc, [guid |-> guid, content |-> render(guid, title, desc)]))

process_feed_items(items, articles_seen) == process_loop(items, articles_seen, <<>>)

\* items left in feed order.
reverse_omitted(items) == items

\* items.reverse()
reverse(items) == [k \in 1..Len(items) |-> items[Len(items) + 1 - k]]

(***************************************************************************)
(* Webhook target resolver                                                 *)
(***************************************************************************)
ARN == <<"a","r","n">>

ARN_COLON == <<"a","r","n",":">>

HTTP == <<"h","t","t","p">>

SECRETSMANAGER == <<"s","e","c","r","e","t","s","m","a","n","a","g","e","r">>

\* The environment without WEBHOOK_URL (a marker that is no string).
Unset == <<"unset">>

\* The answer of secretsmanager.get_secret_value that is not a secret.
ClientError == <<"ClientError">>

\* The split has fewer than three parts.
NoService == <<"IndexError">>

\* webhook_url.split(':', maxsplit=5)[2], or NoService
service_name(webhook_url) ==
  LET c0 == find(webhook_url, <<":">>, 0)
      c1 == IF c0 < 0 THEN -1 ELSE find(webhook_url, <<":">>, c0 + 1)
      c2 == IF c1 < 0 THEN -1 ELSE find(webhook_url, <<":">>, c1 + 1)
  IN IF c1 < 0 THEN NoService
     ELSE IF c2 < 0 THEN SliceFrom(webhook_url, c1 + 1)
     ELSE Slice(webhook_url, c1 + 1, c2)

\* get_webhook_url(), from the value of WEBHOOK_URL and the answer the
\* secret backend gives if it is asked: [kind, url, asked], with kind "ok"
\* or the exception raised, and asked = the secret backend was called.
get_webhook_url(webhook_url, secret) ==
  LET fail(k) == [kind |-> k, url |-> <<>>, asked |-> FALSE]
  IN IF webhook_url = Unset THEN fail("KeyError")
     ELSE IF webhook_url = <<>> THEN fail("ValueError")
     ELSE IF ~StartsWith(webhook_url, ARN) /\ ~StartsWith(webhook_url, HTTP)
     THEN fail("ValueError")
     ELSE IF StartsWith(webhook_url, ARN_COLON)
     THEN (IF service_name(webhook_url) = NoService THEN fail("IndexError")
           ELSE IF service_name(webhook_url) = SECRETSMANAGER
           THEN (IF secret = ClientError
                 THEN [kind |-> "ClientError", url |-> <<>>, asked |-> TRUE]
                 ELSE [kind |-> "ok", url |-> secret, asked |-> TRUE])
           ELSE fail("NotImplementedError"))
     ELSE IF StartsWith(webhook_url, HTTP)
     THEN [kind |-> "ok", url |-> webhook_url, asked |-> FALSE]
     ELSE fail("RuntimeError")

(***************************************************************************)
(* Seen-set pruning                                                        *)
(***************************************************************************)
\* prune_articles_seen keeping the oldest entries instead of the newest.
prune_keep_oldest(articles_seen, state_seen) ==
  LET num_articles_seen == Len(articles_seen)
  IN IF num_articles_seen > MAX_ARTICLES_SEEN
     THEN Slice(articles_seen, 0, MAX_ARTICLES_SEEN)
     ELSE state_seen

\* prune_articles_seen: the value of state['articles_seen'] afterwards
prune_articles_seen(articles_seen, state_seen) ==
  LET num_articles_seen == Len(articles_seen)
  IN IF num_articles_seen > MAX_ARTICLES_SEEN
     THEN SliceFrom(articles_seen, num_articles_seen - MAX_ARTICLES_SEEN)
     ELSE state_seen

(***************************************************************************)
(* Bounds and inputs of the pipeline model                                 *)
(***************************************************************************)
\* Invocations started in one behaviour.
MaxInvocations == 2

\* Failures and terminations injected in one behaviour.
MaxFaults == 1

\* Items of the largest feed beyond MAX_ARTICLES_SEEN.
BigFeedExtra == 1

Digit == <<"0","1","2","3","4","5","6","7","8","9">>

\* The identifier number i of a family of two-digit identifiers.
Guid(letter, i) == <<letter, Digit[(i \div 10) + 1], Digit[(i % 10) + 1]>>

\* The i oldest identifiers of a seen-set written by earlier invocations.
Olds(n) == [i \in 1..n |-> Guid("o", i)]

Item(g, t, d) == [guid |-> g, title |-> t, description |-> d]

ShortDesc == <<"o","n","e","<","b","r","/",">","t","w","o"," ",NL>>

\* A body that needs two chunks, with a paragraph break and some words.
LongDesc ==
  Rep("a", 1500) \o <<NL, NL>> \o Rep("a", 300) \o <<" ">> \o Rep("a", 300)

ItemA == Item(Guid("a", 1), <<"A","l","p","h","a">>, ShortDesc)

ItemB == Item(Guid("b", 1), <<"x","<","y">>, ShortDesc)

ItemL == Item(Guid("l", 1), <<"L","o","n","g">>, LongDesc)

ItemW == Item(Guid("w", 1), WEEK_IN_REVIEW, ShortDesc)

ItemOld == Item(Guid("o", 1), <<"O","l","d">>, ShortDesc)

\* The feeds the feed source may answer with, newest item first.
Feeds ==
  << <<>>,
     <<ItemB, ItemA>>,
     <<ItemL, ItemW, ItemOld>>,
     <<ItemA, ItemB, ItemA>>,
     [i \in 1..(MAX_ARTICLES_SEEN + BigFeedExtra) |->
        Item(Guid("n", MAX_ARTICLES_SEEN + BigFeedExtra + 1 - i), <<"N">>, <<"n">>)],
     <<ItemA>> >>

FeedIds == 1..Len(Feeds)

\* Longest feed answered to invocations that overlap.
MaxOverlapItems == 3

OverlapFeedIds == {f \in FeedIds : Len(Feeds[f]) <= MaxOverlapItems}

\* The backend holding the state object body, or holding no such object.
Stored(body) == [present |-> TRUE, body |-> body]

Missing == [present |-> FALSE, body |-> <<>>]

\* The persisted state objects a behaviour may start from.
InitStores ==
  { Missing,
    Stored([articles_seen |-> Olds(MAX_ARTICLES_SEEN - 1), note |-> <<"k">>]) }

SECRET_ARN ==
  ARN_COLON \o <<"a","w","s",":">> \o SECRETSMANAGER \o <<":","r",":","1",":","s">>

HOOK == HTTP \o <<"s",":","/","/","h","o","o","k">>

\* The answers of the secret backend.
Secrets == {HOOK, ClientError}

Procs == {1, 2}

(***************************************************************************)
(* State                                                                   *)
(***************************************************************************)
VARIABLES
  env_webhook_url,      \* os.environ['WEBHOOK_URL']
  store,                \* the persisted state object, or Missing
  pc,                   \* position of each invocation in lambda_handler
  state,                \* the dict returned by load_state
  articles_seen,        \* the list lambda_handler got from setdefault
  items,                \* feed.items after reverse()
  articles_to_publish,
  webhook_url,
  published_count,
  cand,                 \* 1-based position of publish_articles' outer loop
  parts,                \* chunks of the candidate being published
  partno,               \* 1-based position of the inner loop
  result,               \* how the invocation ended
  delivered,            \* the requests.post calls made, in order
  \* bookkeeping of the model
  ninv,                 \* invocations started so far
  invno,                \* number of the invocation a process runs
  loaded,               \* the seen-set as load_state returned it
  fetched,              \* the feed (its number) the invocation was answered
  presave,              \* articles_seen when prune_articles_seen was called
  saves,                \* state writes of the invocation
  asked,                \* secret backend calls of the invocation
  failure,              \* the call of the invocation that failed, if any
  prev,                 \* summary of the invocation that ended last
  faults                \* failures and terminations injected so far

sysvars ==
  <<env_webhook_url, store, pc, state, articles_seen, items,
    articles_to_publish, webhook_url, published_count, cand, parts, partno,
    result, delivered, ninv, invno, loaded, fetched, presave, saves, asked,
    failure, prev, faults>>

\* paginate_message studied on its own
VARIABLES
  pg_pc,        \* "off", "loop" or "done"
  pg_input,     \* the argument of paginate_message
  pg_content,   \* content
  pg_parts,     \* parts
  pg_cuts,      \* bookkeeping: for each cut, its rule and the text skipped
  pg_rendered   \* bookkeeping: the argument was built by process_feed_items

pgvars == <<pg_pc, pg_input, pg_content, pg_parts, pg_cuts, pg_rendered>>

\* get_webhook_url studied on its own
VARIABLES
  rs_ref,       \* the value of WEBHOOK_URL, or Unset
  rs_secret,    \* what the secret backend answers if asked
  rs_out        \* what get_webhook_url did, NotCalled before the call

rsvars == <<rs_ref, rs_secret, rs_out>>

\* {}
EmptyDict == <<>>

\* d.setdefault(key, value): the dict afterwards
setdefault(d, key, value) ==
  IF key \in DOMAIN d THEN d
  ELSE [k \in DOMAIN d \cup {key} |-> IF k = key THEN value ELSE d[k]]

\* setitem that builds a new dict holding the one key.
setitem_alone(d, key, value) == [k \in {key} |-> value]

\* d[key] = value: the dict afterwards
setitem(d, key, value) ==
  [k \in DOMAIN d \cup {key} |-> IF k = key THEN value ELSE d[k]]

NoPrev == [feed |-> 0, saved |-> FALSE, published |-> <<>>, delivered |-> {}]

\* Appended to the seen-set by the invocation of process p so far.
Appended(p) == SubSeq(articles_seen[p], Len(loaded[p]) + 1, Len(articles_seen[p]))

SysInit ==
  /\ env_webhook_url = SECRET_ARN
  /\ store \in InitStores
  /\ pc = [p \in Procs |-> "idle"]
  /\ state = [p \in Procs |-> EmptyDict]
  /\ articles_seen = [p \in Procs |-> <<>>]
  /\ items = [p \in Procs |-> <<>>]
  /\ articles_to_publish = [p \in Procs |-> <<>>]
  /\ webhook_url = [p \in Procs |-> <<>>]
  /\ published_count = [p \in Procs |-> 0]
  /\ cand = [p \in Procs |-> 0]
  /\ parts = [p \in Procs |-> <<>>]
  /\ partno = [p \in Procs |-> 0]
  /\ result = [p \in Procs |-> "none"]
  /\ delivered = <<>>
  /\ ninv = 0
  /\ invno = [p \in Procs |-> 0]
  /\ loaded = [p \in Procs |-> <<>>]
  /\ fetched = [p \in Procs |-> 0]
  /\ presave = [p \in Procs |-> <<>>]
  /\ saves = [p \in Procs |-> 0]
  /\ asked = [p \in Procs |-> 0]
  /\ failure = [p \in Procs |-> "none"]
  /\ prev = NoPrev
  /\ faults = 0

(***************************************************************************)
(* lambda_handler, step by step                                            *)
(***************************************************************************)
Running(p) == pc[p] \notin {"idle", "done"}

\* The invocation of p ends: "returned" (None), "status500" (the failure
\* result), "raised" (an exception left the handler) or "killed".
End(p, r) ==
  /\ pc' = [pc EXCEPT ![p] = "done"]
  /\ result' = [result EXCEPT ![p] = r]

\* The call named c failed in the invocation of p.
Fail(p, c) ==
  /\ faults < MaxFaults
  /\ faults' = faults + 1
  /\ failure' = [failure EXCEPT ![p] = c]

\* What an invocation that has ended leaves for the next one to compare with:
\* the feed it was answered, whether it saved, the identifiers it saved as
\* published, and the identifiers it delivered a chunk of.
Summary(p) ==
  [feed |-> fetched[p], saved |-> saves[p] > 0,
   published |-> IF saves[p] > 0 THEN Appended(p) ELSE <<>>,
   delivered |-> {delivered[k].guid : k \in 1..Len(delivered)}]

\* The external trigger invokes the handler; at most one invocation runs.
Start(p) ==
  /\ p = 1
  /\ \A q \in Procs : ~Running(q)
  /\ ninv < MaxInvocations
  /\ ninv' = ninv + 1
  /\ invno' = [invno EXCEPT ![p] = ninv + 1]
  /\ prev' = IF pc[p] = "done" THEN Summary(p) ELSE prev
  /\ delivered' = <<>>
  /\ pc' = [pc EXCEPT ![p] = "load"]
  /\ state' = [state EXCEPT ![p] = EmptyDict]
  /\ articles_seen' = [articles_seen EXCEPT ![p] = <<>>]
  /\ items' = [items EXCEPT ![p] = <<>>]
  /\ articles_to_publish' = [articles_to_publish EXCEPT ![p] = <<>>]
  /\ webhook_url' = [webhook_url EXCEPT ![p] = <<>>]
  /\ published_count' = [published_count EXCEPT ![p] = 0]
  /\ cand' = [cand EXCEPT ![p] = 0]
  /\ parts' = [parts EXCEPT ![p] = <<>>]
  /\ partno' = [partno EXCEPT ![p] = 0]
  /\ result' = [result EXCEPT ![p] = "none"]
  /\ loaded' = [loaded EXCEPT ![p] = <<>>]
  /\ fetched' = [fetched EXCEPT ![p] = 0]
  /\ presave' = [presave EXCEPT ![p] = <<>>]
  /\ saves' = [saves EXCEPT ![p] = 0]
  /\ asked' = [asked EXCEPT ![p] = 0]
  /\ failure' = [failure EXCEPT ![p] = "none"]
  /\ UNCHANGED <<env_webhook_url, store, faults>>
  /\ UNCHANGED <<pgvars, rsvars>>

\* LoadState of a handler that resolves the webhook target first thing.
LoadStateResolvingFirst(p) ==
  /\ pc[p] = "load"
  /\ LET d == setdefault(IF store.present THEN store.body ELSE EmptyDict,
                         "articles_seen", <<>>)
     IN /\ state' = [state EXCEPT ![p] = d]
        /\ articles_seen' = [articles_seen EXCEPT ![p] = d["articles_seen"]]
        /\ loaded' = [loaded EXCEPT ![p] = d["articles_seen"]]
  /\ asked' = [asked EXCEPT ![p] = @ + 1]
  /\ webhook_url' = [webhook_url EXCEPT ![p] = HOOK]
  /\ pc' = [pc EXCEPT ![p] = "fetch"]
  /\ UNCHANGED <<env_webhook_url, store, items, articles_to_publish,
                 published_count, cand, parts, partno, result,
                 delivered, ninv, invno, fetched, presave, saves, failure,
                 prev, faults>>
  /\ UNCHANGED <<pgvars, rsvars>>

\* lambda_handler is entered while another invocation may be running: nothing
\* in the handler asks whether one is.  Each process runs one invocation.
StartOverlap(p) ==
  /\ pc[p] = "idle"
  /\ ninv < MaxInvocations
  /\ ninv' = ninv + 1
  /\ invno' = [invno EXCEPT ![p] = ninv + 1]
  /\ pc' = [pc EXCEPT ![p] = "load"]
  /\ UNCHANGED <<env_webhook_url, store, state, articles_seen, items,
                 articles_to_publish, webhook_url, published_count, cand,
                 parts, partno, result, delivered, loaded, fetched, presave,
                 saves, asked, failure, prev, faults>>
  /\ UNCHANGED <<pgvars, rsvars>>

\* state = load_state(); articles_seen = state.setdefault('articles_seen', [])
\* A missing object is read as '{}'.  json.loads(json.dumps(d)) is d for a
\* dict of strings and lists of strings, which is all the state holds.
LoadState(p) ==
  /\ pc[p] = "load"
  /\ LET d == setdefault(IF store.present THEN store.body ELSE EmptyDict,
                         "articles_seen", <<>>)
     IN /\ state' = [state EXCEPT ![p] = d]
        /\ articles_seen' = [articles_seen EXCEPT ![p] = d["articles_seen"]]
        /\ loaded' = [loaded EXCEPT ![p] = d["articles_seen"]]
  /\ pc' = [pc EXCEPT ![p] = "fetch"]
  /\ UNCHANGED <<env_webhook_url, store, items, articles_to_publish,
                 webhook_url, published_count, cand, parts, partno, result,
                 delivered, ninv, invno, fetched, presave, saves, asked, failure,
                 prev, faults>>
  /\ UNCHANGED <<pgvars, rsvars>>

\* LoadError with every read error taken for a missing object.
LoadErrorAsMissing(p) ==
  /\ pc[p] = "load"
  /\ Fail(p, "load")
  /\ state' = [state EXCEPT ![p] = setdefault(EmptyDict, "articles_seen", <<>>)]
  /\ pc' = [pc EXCEPT ![p] = "fetch"]
  /\ UNCHANGED <<env_webhook_url, store, articles_seen, items,
                 articles_to_publish, webhook_url, published_count, cand,
                 parts, partno, result, delivered, ninv, invno, loaded, fetched,
                 presave, saves, asked, prev>>
  /\ UNCHANGED <<pgvars, rsvars>>

\* load_state raises: a backend error other than "not found".
LoadError(p) ==
  /\ pc[p] = "load"
  /\ Fail(p, "load")
  /\ End(p, "raised")
  /\ UNCHANGED <<env_webhook_url, store, state, articles_seen, items,
                 articles_to_publish, webhook_url, published_count, cand,
                 parts, partno, delivered, ninv, invno, loaded, fetched,
                 presave, saves, asked, prev>>
  /\ UNCHANGED <<pgvars, rsvars>>

\* FetchOk of a handler that prunes and saves outside the test for candidates.
FetchOkSavingAnyway(p) ==
  /\ pc[p] = "fetch"
  /\ \E f \in FeedIds :
       LET its   == reverse(Feeds[f])
           cands == process_feed_items(its, articles_seen[p])
       IN /\ fetched' = [fetched EXCEPT ![p] = f]
          /\ items' = [items EXCEPT ![p] = its]
          /\ articles_to_publish' = [articles_to_publish EXCEPT ![p] = cands]
          /\ pc' = [pc EXCEPT ![p] = IF cands # <<>> THEN "resolve" ELSE "prune"]
  /\ UNCHANGED <<env_webhook_url, store, state, articles_seen, webhook_url,
                 published_count, cand, parts, partno, result, delivered, ninv,
                 invno, loaded, presave, saves, asked, failure,
                 prev, faults>>
  /\ UNCHANGED <<pgvars, rsvars>>

\* fetch_rss_feed returns a feed; items.reverse(); process_feed_items(...).
\* With no candidate the handler logs and returns None.
FetchOk(p) ==
  /\ pc[p] = "fetch"
  /\ \E f \in FeedIds :
       LET its   == reverse(Feeds[f])
           cands == process_feed_items(its, articles_seen[p])
       IN /\ fetched' = [fetched EXCEPT ![p] = f]
          /\ items' = [items EXCEPT ![p] = its]
          /\ articles_to_publish' = [articles_to_publish EXCEPT ![p] = cands]
          /\ IF cands # <<>>
             THEN /\ pc' = [pc EXCEPT ![p] = "resolve"]
                  /\ UNCHANGED result
             ELSE End(p, "returned")
  /\ UNCHANGED <<env_webhook_url, store, state, articles_seen, webhook_url,
                 published_count, cand, parts, partno, delivered, ninv, invno,
                 loaded, presave, saves, asked, failure,
                 prev, faults>>
  /\ UNCHANGED <<pgvars, rsvars>>

\* requests.get or raise_for_status raises a RequestException:
\* fetch_rss_feed returns None and the handler returns the 500 result.
FetchRequestError(p) ==
  /\ pc[p] = "fetch"
  /\ Fail(p, "request")
  /\ End(p, "status500")
  /\ UNCHANGED <<env_webhook_url, store, state, articles_seen, items,
                 articles_to_publish, webhook_url, published_count, cand,
                 parts, partno, delivered, ninv, invno, loaded, fetched,
                 presave, saves, asked, prev>>
  /\ UNCHANGED <<pgvars, rsvars>>

\* atoma.parse_rss_bytes raises on a body that is not a feed; the except
\* clause names requests.RequestException only, so the error leaves the handler.
FetchParseError(p) ==
  /\ pc[p] = "fetch"
  /\ Fail(p, "parse")
  /\ End(p, "raised")
  /\ UNCHANGED <<env_webhook_url, store, state, articles_seen, items,
                 articles_to_publish, webhook_url, published_count, cand,
                 parts, partno, delivered, ninv, invno, loaded, fetched,
                 presave, saves, asked, prev>>
  /\ UNCHANGED <<pgvars, rsvars>>

\* webhook_url = get_webhook_url(), then publish_articles starts on the
\* first candidate.
Resolve(p) ==
  /\ pc[p] = "resolve"
  /\ \E secret \in Secrets :
       LET r == get_webhook_url(env_webhook_url, secret)
       IN /\ asked' = [asked EXCEPT ![p] = @ + (IF r.asked THEN 1 ELSE 0)]
          /\ IF r.kind = "ok"
             THEN /\ webhook_url' = [webhook_url EXCEPT ![p] = r.url]
                  /\ pc' = [pc EXCEPT ![p] = "publish"]
                  /\ cand' = [cand EXCEPT ![p] = 1]
                  /\ parts' = [parts EXCEPT ![p] =
                                 paginate_message(articles_to_publish[p][1].content)]
                  /\ partno' = [partno EXCEPT ![p] = 1]
                  /\ UNCHANGED <<result, failure, faults>>
             ELSE /\ Fail(p, "resolve")
                  /\ End(p, "raised")
                  /\ UNCHANGED <<webhook_url, cand, parts, partno>>
  /\ UNCHANGED <<env_webhook_url, store, state, articles_seen, items,
                 articles_to_publish, published_count, delivered, ninv, invno,
                 loaded, fetched, presave, saves, prev>>
  /\ UNCHANGED <<pgvars, rsvars>>

\* Post that marks the candidate seen as soon as its first chunk is sent.
PostMarksSeen(p) ==
  /\ pc[p] = "publish"
  /\ partno[p] <= Len(parts[p])
  /\ delivered' = Append(delivered,
                         [inv |-> invno[p],
                          guid |-> articles_to_publish[p][cand[p]].guid,
                          k |-> partno[p], last |-> partno[p] = Len(parts[p])])
  /\ partno' = [partno EXCEPT ![p] = @ + 1]
  /\ LET seen == IF partno[p] = 1
                 THEN Append(articles_seen[p], articles_to_publish[p][cand[p]].guid)
                 ELSE articles_seen[p]
     IN /\ articles_seen' = [articles_seen EXCEPT ![p] = seen]
        /\ state' = [state EXCEPT ![p] = setitem(@, "articles_seen", seen)]
  /\ UNCHANGED <<env_webhook_url, store, pc, items,
                 articles_to_publish, webhook_url, published_count, cand,
                 parts, result, ninv, invno, loaded, fetched, presave, saves,
                 asked, failure,
                 prev, faults>>
  /\ UNCHANGED <<pgvars, rsvars>>

\* requests.post(webhook_url, json={'content': part}) returns (any status).
\* The call is logged by the candidate and the position of the chunk sent,
\* parts[partno], and whether it is the candidate's last.
Post(p) ==
  /\ pc[p] = "publish"
  /\ partno[p] <= Len(parts[p])
  /\ delivered' = Append(delivered,
                         [inv |-> invno[p],
                          guid |-> articles_to_publish[p][cand[p]].guid,
                          k |-> partno[p], last |-> partno[p] = Len(parts[p])])
  /\ partno' = [partno EXCEPT ![p] = @ + 1]
  /\ UNCHANGED <<env_webhook_url, store, pc, state, articles_seen, items,
                 articles_to_publish, webhook_url, published_count, cand,
                 parts, result, ninv, invno, loaded, fetched, presave, saves,
                 asked, failure,
                 prev, faults>>
  /\ UNCHANGED <<pgvars, rsvars>>

\* requests.post raises; nothing in publish_articles or lambda_handler
\* catches it, so lines 214-262 are not run.
PostError(p) ==
  /\ pc[p] = "publish"
  /\ partno[p] <= Len(parts[p])
  /\ Fail(p, "post")
  /\ End(p, "raised")
  /\ UNCHANGED <<env_webhook_url, store, state, articles_seen, items,
                 articles_to_publish, webhook_url, published_count, cand,
                 parts, partno, delivered, ninv, invno, loaded, fetched,
                 presave, saves, asked, prev>>
  /\ UNCHANGED <<pgvars, rsvars>>

\* MarkSeen of a loop that writes the state after every candidate.
MarkSeenAndSave(p) ==
  /\ pc[p] = "publish"
  /\ partno[p] > Len(parts[p])
  /\ LET seen == Append(articles_seen[p], articles_to_publish[p][cand[p]].guid)
     IN /\ articles_seen' = [articles_seen EXCEPT ![p] = seen]
        /\ state' = [state EXCEPT ![p] = setitem(@, "articles_seen", seen)]
        /\ store' = Stored(setitem(state[p], "articles_seen", seen))
  /\ published_count' = [published_count EXCEPT ![p] = @ + 1]
  /\ cand' = [cand EXCEPT ![p] = @ + 1]
  /\ IF cand[p] < Len(articles_to_publish[p])
     THEN /\ parts' = [parts EXCEPT ![p] =
                         paginate_message(articles_to_publish[p][cand[p] + 1].content)]
          /\ partno' = [partno EXCEPT ![p] = 1]
          /\ UNCHANGED pc
     ELSE /\ pc' = [pc EXCEPT ![p] = "prune"]
          /\ UNCHANGED <<parts, partno>>
  /\ UNCHANGED <<env_webhook_url, items, articles_to_publish,
                 webhook_url, result, delivered, ninv, invno, loaded, fetched,
                 presave, saves, asked, failure,
                 prev, faults>>
  /\ UNCHANGED <<pgvars, rsvars>>

\* articles_seen.append(guid); published_count += 1; the outer loop moves on.
\* articles_seen is the list object held by state['articles_seen'].
MarkSeen(p) ==
  /\ pc[p] = "publish"
  /\ partno[p] > Len(parts[p])
  /\ LET seen == Append(articles_seen[p], articles_to_publish[p][cand[p]].guid)
     IN /\ articles_seen' = [articles_seen EXCEPT ![p] = seen]
        /\ state' = [state EXCEPT ![p] = setitem(@, "articles_seen", seen)]
  /\ published_count' = [published_count EXCEPT ![p] = @ + 1]
  /\ cand' = [cand EXCEPT ![p] = @ + 1]
  /\ IF cand[p] < Len(articles_to_publish[p])
     THEN /\ parts' = [parts EXCEPT ![p] =
                         paginate_message(articles_to_publish[p][cand[p] + 1].content)]
          /\ partno' = [partno EXCEPT ![p] = 1]
          /\ UNCHANGED pc
     ELSE /\ pc' = [pc EXCEPT ![p] = "prune"]
          /\ UNCHANGED <<parts, partno>>
  /\ UNCHANGED <<env_webhook_url, store, items, articles_to_publish,
                 webhook_url, result, delivered, ninv, invno, loaded, fetched,
                 presave, saves, asked, failure,
                 prev, faults>>
  /\ UNCHANGED <<pgvars, rsvars>>

\* prune_articles_seen(articles_seen, state)
Prune(p) ==
  /\ pc[p] = "prune"
  /\ presave' = [presave EXCEPT ![p] = articles_seen[p]]
  /\ state' = [state EXCEPT ![p] =
                 setitem(@, "articles_seen",
                         prune_articles_seen(articles_seen[p], @["articles_seen"]))]
  /\ pc' = [pc EXCEPT ![p] = "save"]
  /\ UNCHANGED <<env_webhook_url, store, articles_seen, items,
                 articles_to_publish, webhook_url, published_count, cand,
                 parts, partno, result, delivered, ninv, invno, loaded,
                 fetched, saves, asked, failure,
                 prev, faults>>
  /\ UNCHANGED <<pgvars, rsvars>>

\* Save that writes only when the backend still holds the seen-set that was
\* loaded, and gives up otherwise.
SaveIfUnchanged(p) ==
  /\ pc[p] = "save"
  /\ IF (IF store.present THEN store.body["articles_seen"] ELSE <<>>) = loaded[p]
     THEN /\ store' = Stored(state[p])
          /\ saves' = [saves EXCEPT ![p] = @ + 1]
     ELSE UNCHANGED <<store, saves>>
  /\ End(p, "returned")
  /\ UNCHANGED <<env_webhook_url, state, articles_seen, items,
                 articles_to_publish, webhook_url, published_count, cand,
                 parts, partno, delivered, ninv, invno, loaded, fetched,
                 presave, asked, failure,
                 prev, faults>>
  /\ UNCHANGED <<pgvars, rsvars>>

\* save_state(state), and the handler returns None.
Save(p) ==
  /\ pc[p] = "save"
  /\ store' = Stored(state[p])
  /\ saves' = [saves EXCEPT ![p] = @ + 1]
  /\ End(p, "returned")
  /\ UNCHANGED <<env_webhook_url, state, articles_seen, items,
                 articles_to_publish, webhook_url, published_count, cand,
                 parts, partno, delivered, ninv, invno, loaded, fetched,
                 presave, asked, failure,
                 prev, faults>>
  /\ UNCHANGED <<pgvars, rsvars>>

\* save_state raises: the backend refuses the write.
SaveError(p) ==
  /\ pc[p] = "save"
  /\ Fail(p, "save")
  /\ End(p, "raised")
  /\ UNCHANGED <<env_webhook_url, store, state, articles_seen, items,
                 articles_to_publish, webhook_url, published_count, cand,
                 parts, partno, delivered, ninv, invno, loaded, fetched,
                 presave, saves, asked, prev>>
  /\ UNCHANGED <<pgvars, rsvars>>

\* The invocation is terminated from outside.
Kill(p) ==
  /\ faults < MaxFaults
  /\ faults' = faults + 1
  /\ Running(p)
  /\ End(p, "killed")
  /\ UNCHANGED <<env_webhook_url, store, state, articles_seen, items,
                 articles_to_publish, webhook_url, published_count, cand,
                 parts, partno, delivered, ninv, invno, loaded, fetched,
                 presave, saves, asked, failure, prev>>
  /\ UNCHANGED <<pgvars, rsvars>>

SysNext ==
  \E p \in Procs :
    \/ Start(p)
    \/ LoadState(p)
    \/ LoadError(p)
    \/ FetchOk(p)
    \/ FetchRequestError(p)
    \/ FetchParseError(p)
    \/ Resolve(p)
    \/ Post(p)
    \/ PostError(p)
    \/ MarkSeen(p)
    \/ Prune(p)
    \/ Save(p)
    \/ SaveError(p)
    \/ Kill(p)

(***************************************************************************)
(* paginate_message on its own, one loop iteration per step                *)
(***************************************************************************)
\* Longest run of arbitrary characters placed in an input.
MidLen == 3

\* How far before MAX_MSG_LEN that run may start.
PreSpan == 6

MidAlphabet == {"x", " ", NL}

Mids == UNION {[1..n -> MidAlphabet] : n \in 0..MidLen}

PreLens == {0} \cup ((MAX_MSG_LEN - PreSpan)..MAX_MSG_LEN)

PostLens == {0, 1, 4, MAX_MSG_LEN}

\* Raw item descriptions: two runs of letters around a separator.
DescSeps == {<<>>, <<" ">>, <<NL, NL>>, BR_TIGHT \o BR_SPACED, <<NL>>}

RawDescs ==
  {Rep("a", n1) \o sep \o Rep("a", n2) :
     n1 \in {0, 7, MAX_MSG_LEN - 100}, sep \in DescSeps, n2 \in {5, MAX_MSG_LEN + 100}}

RawTitles == {<<"N">>, <<"x","<","y">>, Rep("T", MAX_MSG_LEN) \o <<" ","t">>}

PgOff ==
  /\ pg_pc = "off"
  /\ pg_input = <<>>
  /\ pg_content = <<>>
  /\ pg_parts = <<>>
  /\ pg_cuts = <<>>
  /\ pg_rendered = FALSE

\* paginate_message is called with a run of letters, a run of arbitrary
\* characters and a run of letters of one of the lengths posts, or with the
\* content built for an item.
PgInitWith(posts) ==
  /\ pg_pc = "loop"
  /\ \/ /\ pg_rendered = FALSE
        /\ \E pre \in PreLens, mid \in Mids, post \in posts :
             pg_input = Rep("a", pre) \o mid \o Rep("a", post)
     \/ /\ pg_rendered = TRUE
        /\ \E t \in RawTitles, d \in RawDescs :
             pg_input = render(Guid("g", 1), clean(t), sanitize_desc(d))
  /\ pg_content = pg_input
  /\ pg_parts = <<>>
  /\ pg_cuts = <<>>

PgInit == PgInitWith(PostLens)

\* while(len(content) > 0) is false
PaginateExit ==
  /\ pg_pc = "loop"
  /\ Len(pg_content) = 0
  /\ pg_pc' = "done"
  /\ UNCHANGED <<pg_input, pg_content, pg_parts, pg_cuts, pg_rendered>>
  /\ UNCHANGED <<sysvars, rsvars>>

\* PaginateLast of a loop that tests the length only after the first pass.
PaginateLastOnEmpty ==
  /\ pg_pc = "loop"
  /\ Len(pg_content) <= MAX_MSG_LEN
  /\ pg_parts' = Append(pg_parts, pg_content)
  /\ pg_pc' = "done"
  /\ UNCHANGED <<pg_input, pg_content, pg_cuts, pg_rendered>>
  /\ UNCHANGED <<sysvars, rsvars>>

\* if len(content) <= MAX_MSG_LEN: parts.append(content); break
PaginateLast ==
  /\ pg_pc = "loop"
  /\ Len(pg_content) > 0
  /\ Len(pg_content) <= MAX_MSG_LEN
  /\ pg_parts' = Append(pg_parts, pg_content)
  /\ pg_pc' = "done"
  /\ UNCHANGED <<pg_input, pg_content, pg_cuts, pg_rendered>>
  /\ UNCHANGED <<sysvars, rsvars>>

\* lines 80-96
PaginateCut ==
  /\ pg_pc = "loop"
  /\ Len(pg_content) > MAX_MSG_LEN
  /\ \E c \in {CutAt(pg_content, cut) : cut \in {FindCut(pg_content)}} :
       /\ pg_parts' = Append(pg_parts, c.part)
       /\ pg_content' = c.rest
       /\ pg_cuts' = Append(pg_cuts, [rule |-> c.rule, skipped |-> c.skipped])
  /\ UNCHANGED <<pg_pc, pg_input, pg_rendered>>
  /\ UNCHANGED <<sysvars, rsvars>>

PgNext == PaginateExit \/ PaginateLast \/ PaginateCut

(***************************************************************************)
(* get_webhook_url on its own                                              *)
(***************************************************************************)
\* Longest configured reference, in tokens.
MaxTokens == 3

Tokens ==
  { ARN_COLON, ARN, <<"a","w","s",":">>, SECRETSMANAGER, <<":">>,
    <<"s","n","s">>, HTTP, <<"s",":","/","/","x">>, <<"f","t","p">> }

RECURSIVE Flatten(_)
Flatten(ts) == IF ts = <<>> THEN <<>> ELSE Head(ts) \o Flatten(Tail(ts))

Refs == {Flatten(ts) : ts \in UNION {[1..n -> Tokens] : n \in 0..MaxTokens}}

NotCalled == [kind |-> "none", url |-> <<>>, asked |-> FALSE]

RsOff ==
  /\ rs_ref = Unset
  /\ rs_secret = ClientError
  /\ rs_out = NotCalled

RsInit ==
  /\ rs_ref \in Refs \cup {Unset}
  /\ rs_secret \in Secrets
  /\ rs_out = NotCalled

ResolveRef ==
  /\ rs_out = NotCalled
  /\ rs_out' = get_webhook_url(rs_ref, rs_secret)
  /\ UNCHANGED <<rs_ref, rs_secret>>
  /\ UNCHANGED <<sysvars, pgvars>>

(***************************************************************************)
(* Specifications                                                          *)
(***************************************************************************)
vars == <<sysvars, pgvars, rsvars>>

\* The pipeline stays as constructed while a function is studied on its own.
SysOff == SysInit /\ store = Missing

Init == SysInit /\ PgOff /\ RsOff

Next == SysNext

Spec == Init /\ [][Next]_vars

InitPaginate == SysOff /\ PgInit /\ RsOff

NextPaginate == PgNext

SpecPaginate == InitPaginate /\ [][NextPaginate]_vars

\* The loop runs on: Python executes the next iteration of a while loop as
\* long as its condition holds.  The inputs are those of SpecPaginate whose
\* closing run of letters is empty or MAX_MSG_LEN long.
InitPaginateFair == SysOff /\ PgInitWith({0, MAX_MSG_LEN}) /\ RsOff

SpecPaginateFair ==
  InitPaginateFair /\ [][NextPaginate]_vars /\ WF_vars(NextPaginate)

InitResolve == SysOff /\ PgOff /\ RsInit

NextResolve == ResolveRef

SpecResolve == InitResolve /\ [][NextResolve]_vars

\* Two invocations that may overlap, each answered one of the short feeds;
\* the calls other than the resolution succeed.
InitOverlap == SysOff /\ PgOff /\ RsOff

NextOverlap ==
  \E p \in Procs :
    \/ StartOverlap(p)
    \/ LoadState(p)
    \/ (FetchOk(p) /\ fetched'[p] \in OverlapFeedIds)
    \/ Resolve(p)
    \/ Post(p)
    \/ MarkSeen(p)
    \/ Prune(p)
    \/ Save(p)

SpecOverlap == InitOverlap /\ [][NextOverlap]_vars

(***************************************************************************)
(* Properties of paginate_message (checked under SpecPaginate)             *)
(***************************************************************************)
\* C1: every chunk paginate_message has appended is at most MAX_MSG_LEN
\* characters long, whichever rule cut it, closing and re-opening fences
\* included.
ChunksWithinLimit ==
  \A k \in 1..Len(pg_parts) : Len(pg_parts[k]) <= MAX_MSG_LEN

\* A finished pagination in which a chunk that starts with the re-opening
\* fence was cut by the hard rule and is exactly MAX_MSG_LEN long.
ChunksWithinLimitWitness ==
  /\ pg_pc = "done"
  /\ \E k \in 2..Len(pg_cuts) :
       /\ pg_cuts[k].rule = "hard"
       /\ Len(pg_parts[k]) = MAX_MSG_LEN

\* The separator the claim says a cut of each rule consumed.
Separator(rule) ==
  IF rule = "para" THEN <<NL, NL>>
  ELSE IF rule = "word" THEN <<" ">>
  ELSE <<>>

\* chunk k of n without the fences paginate_message added to it
Unfenced(ps, k) ==
  LET lo == IF k > 1 THEN Len(FENCE) + 1 ELSE 0
      hi == IF k < Len(ps) THEN Len(ps[k]) - Len(FENCE) ELSE Len(ps[k])
  IN Slice(ps[k], lo, hi)

\* The chunks joined in order, fences removed, the separator of each cut's
\* rule put back.
RECURSIVE Rejoin(_, _, _)
Rejoin(ps, cuts, k) ==
  IF k > Len(ps) THEN <<>>
  ELSE Unfenced(ps, k)
         \o (IF k <= Len(cuts) THEN Separator(cuts[k].rule) ELSE <<>>)
         \o Rejoin(ps, cuts, k + 1)

\* C2: paginate_message drops nothing and keeps the order: the chunks, with
\* the added fences removed and only the separator of each cut put back (two
\* newlines at a paragraph break, one space at a word break, nothing at a
\* hard cut), concatenate to the input.
ContentPreserved ==
  pg_pc = "done" => Rejoin(pg_parts, pg_cuts, 1) = pg_input

\* number of fence delimiters in s, counted left to right
RECURSIVE FenceCount(_)
FenceCount(s) ==
  LET i == find(s, FENCE, 0)
  IN IF i < 0 THEN 0 ELSE 1 + FenceCount(SliceFrom(s, i + Len(FENCE)))

\* C3: every chunk of a rendered candidate content (header line, opening
\* fence, body, closing fence) holds an even number of fence delimiters.
FencesBalanced ==
  (pg_rendered /\ pg_pc = "done") =>
    \A k \in 1..Len(pg_parts) : FenceCount(pg_parts[k]) % 2 = 0

\* The 0-based positions of content at which a paragraph break lies wholly
\* before position MAX_MSG_LEN - 3, and those at which a space does.
ParaBreaksBefore(content) ==
  {i \in 0..(MAX_MSG_LEN - 5) : content[i + 1] = NL /\ content[i + 2] = NL}

SpacesBefore(content) ==
  {i \in 0..(MAX_MSG_LEN - 4) : content[i + 1] = " "}

\* C13: on content longer than MAX_MSG_LEN the chunk emitted is the content
\* before the cut followed by the fence, and the cut is the last paragraph
\* break lying wholly before position MAX_MSG_LEN - 3 when there is one,
\* otherwise the last space before that position when there is one,
\* otherwise position MAX_MSG_LEN - 3.
CutPreference ==
  [][(pg_pc = "loop" /\ Len(pg_content) > MAX_MSG_LEN) =>
       LET part   == pg_parts'[Len(pg_parts')]
           idx    == Len(part) - Len(FENCE)
           paras  == ParaBreaksBefore(pg_content)
           spaces == SpacesBefore(pg_content)
       IN /\ Len(pg_parts') = Len(pg_parts) + 1
          /\ part = SubSeq(pg_content, 1, idx) \o FENCE
          /\ IF paras # {} THEN idx \in paras /\ \A i \in paras : i <= idx
             ELSE IF spaces # {} THEN idx \in spaces /\ \A i \in spaces : i <= idx
             ELSE idx = MAX_MSG_LEN - 3]_vars

\* The first cut was made at a paragraph break although a space lies between
\* that break and position MAX_MSG_LEN - 3.
CutPreferenceWitness ==
  /\ pg_pc = "done" /\ pg_cuts # <<>>
  /\ LET idx == Len(pg_parts[1]) - Len(FENCE)
     IN /\ idx > 0
        /\ idx \in ParaBreaksBefore(pg_input)
        /\ \E j \in SpacesBefore(pg_input) : j > idx

\* C14: what is skipped when advancing past a cut is decided by the rule
\* that chose the cut: the two newlines after a paragraph cut, the one space
\* after a word cut, and nothing after a hard cut.
SkipFollowsRule ==
  \A k \in 1..Len(pg_cuts) : pg_cuts[k].skipped = Separator(pg_cuts[k].rule)

\* C20: paginate_message returns.  The first cut may leave a remainder up to
\* four characters longer than the content it was made in, every later cut
\* leaves a shorter one, and the loop ends; no chunk is empty, and the empty
\* string gives no chunk.
PaginateTerminates ==
  /\ <>(pg_pc = "done")
  /\ [](\A k \in 1..Len(pg_parts) : Len(pg_parts[k]) > 0)
  /\ []((pg_pc = "done" /\ pg_input = <<>>) => pg_parts = <<>>)
  /\ [][pg_content' # pg_content =>
          IF pg_cuts = <<>>
          THEN Len(pg_content') <= Len(pg_content) + Len(FENCE) + 1
          ELSE Len(pg_content') < Len(pg_content)]_vars

\* The first cut was made at index 0 and left a remainder longer than the
\* input; the loop has ended after a further cut.
PaginateTerminatesWitness ==
  /\ pg_pc = "done"
  /\ Len(pg_cuts) >= 2
  /\ pg_parts[1] = FENCE
  /\ Len(FENCE) + 1 - Len(pg_cuts[1].skipped) > 0
  /\ Len(pg_parts[Len(pg_parts)]) < MAX_MSG_LEN

(***************************************************************************)
(* Properties of the pipeline (checked under Spec)                         *)
(***************************************************************************)
Range(q) == {q[k] : k \in 1..Len(q)}

NoDuplicates(q) == \A i, j \in 1..Len(q) : q[i] = q[j] => i = j

\* The seen-set the backend holds.
StoredSeen ==
  IF store.present /\ "articles_seen" \in DOMAIN store.body
  THEN store.body["articles_seen"]
  ELSE <<>>

\* The last n entries of q, all of q when it is shorter.
LastN(q, n) == [k \in 1..Min(n, Len(q)) |-> q[Len(q) - Min(n, Len(q)) + k]]

IsPrefix(a, b) == Len(a) <= Len(b) /\ \A k \in 1..Len(a) : a[k] = b[k]

\* C4: an invocation that runs against the same feed as the invocation that
\* completed and saved just before it delivers no chunk for an identifier
\* that invocation published.
DedupIdempotent ==
  \A p \in Procs :
    (pc[p] # "idle" /\ prev.saved /\ fetched[p] # 0 /\ fetched[p] = prev.feed)
      => \A k \in 1..Len(delivered) : delivered[k].guid \notin Range(prev.published)

\* Identifiers of the candidates before position n.
GuidsBefore(p, n) == [k \in 1..(n - 1) |-> articles_to_publish[p][k].guid]

\* C5: when a delivery call fails on candidate k, no later candidate has been
\* delivered, the seen-set is the loaded one followed by the identifiers of
\* candidates 1..k-1, and that partial progress is what the backend holds.
PartialProgressSaved ==
  \A p \in Procs :
    (pc[p] = "done" /\ failure[p] = "post") =>
      /\ \A k \in 1..Len(delivered) :
           \E c \in 1..cand[p] : delivered[k].guid = articles_to_publish[p][c].guid
      /\ articles_seen[p] = loaded[p] \o GuidsBefore(p, cand[p])
      /\ cand[p] > 1 => StoredSeen = LastN(articles_seen[p], MAX_ARTICLES_SEEN)

\* C6: after the pruning step the seen-set to persist, and the one persisted
\* by the save, has at most MAX_ARTICLES_SEEN entries: the last
\* MAX_ARTICLES_SEEN of the loaded seen-set followed by the identifiers
\* published, in that order, when those are more than MAX_ARTICLES_SEEN, and
\* all of them otherwise.
PrunedSeenSet ==
  \A p \in Procs :
    LET before == loaded[p] \o GuidsBefore(p, Len(articles_to_publish[p]) + 1)
        L      == Len(before)
        after  == IF pc[p] = "save" THEN state[p]["articles_seen"] ELSE StoredSeen
    IN (pc[p] = "save" \/ (pc[p] = "done" /\ saves[p] > 0)) =>
         /\ presave[p] = before
         /\ Len(after) <= MAX_ARTICLES_SEEN
         /\ L > MAX_ARTICLES_SEEN =>
              after = [k \in 1..MAX_ARTICLES_SEEN |-> before[L - MAX_ARTICLES_SEEN + k]]
         /\ L <= MAX_ARTICLES_SEEN =>
              (after = before /\ Range(Appended(p)) \subseteq Range(after))

\* A save that dropped old entries and one that dropped none.
PrunedSeenSetWitness ==
  \E p \in Procs :
    /\ pc[p] = "done" /\ saves[p] > 0
    /\ Len(presave[p]) > MAX_ARTICLES_SEEN + 1
    /\ Len(StoredSeen) = MAX_ARTICLES_SEEN
    /\ StoredSeen[MAX_ARTICLES_SEEN] = presave[p][Len(presave[p])]
    /\ prev.saved /\ Len(prev.published) > 0

\* The sanitized identifier and title of every item of every feed.
Sanitized ==
  [f \in FeedIds |->
     [k \in 1..Len(Feeds[f]) |->
        [guid |-> clean(Feeds[f][k].guid), title |-> clean(Feeds[f][k].title)]]]

\* The identifiers of the items of feed f that are neither in seen nor
\* filtered out, oldest first: the feed is filtered, then reversed.
EligibleOldestFirst(f, seen) ==
  LET Keep(item) == item.guid \notin Range(seen) /\ item.title # WEEK_IN_REVIEW
      kept == SelectSeq(Sanitized[f], Keep)
  IN [k \in 1..Len(kept) |-> kept[Len(kept) + 1 - k].guid]

\* The identifiers in the order their first chunk was delivered.
DeliveryOrder ==
  LET First(d) == d.k = 1
      firsts == SelectSeq(delivered, First)
  IN [k \in 1..Len(firsts) |-> firsts[k].guid]

\* The identifiers in the order their last chunk was delivered.
CompletionOrder ==
  LET Last(d) == d.last
      lasts == SelectSeq(delivered, Last)
  IN [k \in 1..Len(lasts) |-> lasts[k].guid]

\* C7: items are published oldest first: the identifiers delivered, and the
\* identifiers appended to the seen-set, follow the reverse of the feed order
\* restricted to the eligible items, and are all of them once the publish
\* loop has ended.
ChronologicalOrder ==
  \A p \in Procs :
    fetched[p] # 0 =>
      LET expected == EligibleOldestFirst(fetched[p], loaded[p])
      IN /\ IsPrefix(DeliveryOrder, expected)
         /\ IsPrefix(Appended(p), expected)
         /\ IsPrefix(Appended(p), DeliveryOrder)
         /\ pc[p] \in {"prune", "save"} => Appended(p) = expected
         /\ (pc[p] = "done" /\ failure[p] = "none" /\ result[p] = "returned")
              => Appended(p) = expected

\* The feed [B, A] published as A then B.
ChronologicalOrderWitness ==
  \E p \in Procs :
    /\ pc[p] = "done" /\ result[p] = "returned"
    /\ Feeds[fetched[p]] = <<ItemB, ItemA>>
    /\ Appended(p) = <<clean(ItemA.guid), clean(ItemB.guid)>>
    /\ DeliveryOrder = Appended(p)

\* C8: a feed failure of either kind ends the invocation with the failure
\* result and no exception, with no target resolved, no chunk delivered and
\* no state written.
FeedFailureSoft ==
  \A p \in Procs :
    (pc[p] = "done" /\ failure[p] \in {"request", "parse"}) =>
      /\ result[p] = "status500"
      /\ asked[p] = 0 /\ webhook_url[p] = <<>>
      /\ delivered = <<>>
      /\ saves[p] = 0

\* C10: the persisted seen-set holds no identifier twice, and after a save it
\* ends with the identifiers published by the saving invocation in the order
\* they were published.
SeenSetNoDuplicates ==
  /\ NoDuplicates(StoredSeen)
  /\ \A p \in Procs :
       (pc[p] = "done" /\ saves[p] > 0) =>
         StoredSeen = LastN(loaded[p] \o CompletionOrder, MAX_ARTICLES_SEEN)

\* C11: an invocation that finds no state object goes on with the empty
\* state and an empty seen-set and no failure; an invocation whose state read
\* fails otherwise ends with the exception, with no feed fetched, no target
\* resolved, no chunk delivered and no state written.
LoadMissingOrAbort ==
  \A p \in Procs :
    /\ (Running(p) /\ pc[p] # "load" /\ ~store.present) =>
         /\ loaded[p] = <<>>
         /\ articles_seen[p] = Appended(p)
         /\ DOMAIN state[p] = {"articles_seen"}
         /\ failure[p] = "none"
    /\ failure[p] = "load" =>
         /\ pc[p] = "done" /\ result[p] = "raised"
         /\ fetched[p] = 0 /\ items[p] = <<>>
         /\ asked[p] = 0
         /\ delivered = <<>>
         /\ saves[p] = 0

\* No state object, and the invocation is delivering the candidates found
\* against the empty seen-set.
LoadMissingOrAbortWitness ==
  \E p \in Procs :
    /\ ~store.present
    /\ pc[p] = "publish" /\ delivered # <<>>
    /\ loaded[p] = <<>>
    /\ Len(articles_to_publish[p]) = Len(EligibleOldestFirst(fetched[p], <<>>))

\* The keys of the stored state object other than the seen-set.
OtherKeys == IF store.present THEN DOMAIN store.body \ {"articles_seen"} ELSE {}

\* C12: every key of the loaded state object other than 'articles_seen' is
\* held with its loaded value by the invocation from the load on, and every
\* write of the state object keeps each such key with its value, whether or
\* not pruning replaced the seen-set.
OtherKeysPreserved ==
  /\ [](\A p \in Procs :
          (Running(p) /\ pc[p] # "load") =>
            \A k \in OtherKeys : k \in DOMAIN state[p] /\ state[p][k] = store.body[k])
  /\ [][store' # store =>
          /\ store'.present
          /\ \A k \in OtherKeys :
               k \in DOMAIN store'.body /\ store'.body[k] = store.body[k]]_vars

\* A state object with a key of its own, saved once without pruning and then
\* saved again with the seen-set replaced by the pruning.
OtherKeysPreservedWitness ==
  \E p \in Procs :
    /\ pc[p] = "done" /\ saves[p] > 0
    /\ OtherKeys # {}
    /\ Len(presave[p]) > MAX_ARTICLES_SEEN
    /\ prev.saved /\ Len(prev.published) = 1

\* The delivery calls made by the invocation of process p, in order.
DeliveredBy(p) ==
  LET Mine(d) == d.inv = invno[p]
  IN SelectSeq(delivered, Mine)

\* The delivery calls that publishing the candidates from position c on
\* makes for invocation number inv: the chunks paginate_message gives for
\* each candidate, in order, candidate after candidate, as far as the
\* candidate in which the call number `need` falls.
RECURSIVE ChunkLog(_, _, _, _)
ChunkLog(cands, inv, c, need) ==
  IF c > Len(cands) \/ need <= 0 THEN <<>>
  ELSE LET n == Len(paginate_message(cands[c].content))
       IN [k \in 1..n |-> [inv |-> inv, guid |-> cands[c].guid, k |-> k, last |-> k = n]]
            \o ChunkLog(cands, inv, c + 1, need - n)

\* C15: the delivery calls of an invocation are the chunks of candidate 1 in
\* pagination order, then those of candidate 2, and so on; the identifiers
\* appended to the seen-set are those of a leading run of the candidates,
\* each appended only when its last chunk has been delivered and before the
\* first chunk of the next; and the count kept by the loop is the number of
\* identifiers appended.
PublishLoopOrder ==
  \A p \in Procs :
    fetched[p] # 0 =>
      LET log     == DeliveredBy(p)
          Last(d) == d.last
          ended   == Len(SelectSeq(log, Last))
      IN /\ IsPrefix(log, ChunkLog(articles_to_publish[p], invno[p], 1, Len(log)))
         /\ published_count[p] = Len(Appended(p))
         /\ Appended(p) = GuidsBefore(p, published_count[p] + 1)
         /\ published_count[p] <= ended
         /\ ended <= published_count[p] + 1
         /\ (log # <<>> /\ ~log[Len(log)].last) => published_count[p] = ended
         /\ (pc[p] = "done" /\ result[p] = "returned") =>
              published_count[p] = Len(articles_to_publish[p])

\* Two candidates published, one of them in more than one chunk.
PublishLoopOrderWitness ==
  \E p \in Procs :
    /\ pc[p] = "done" /\ result[p] = "returned"
    /\ published_count[p] = 2
    /\ \E i \in 1..Len(delivered) : delivered[i].k > 1 /\ delivered[i].last

\* C16: an invocation asks the secret backend, holds a resolved target or
\* fails in the resolution only when it has at least one candidate; it has
\* asked once and holds the target it was answered before its first delivery
\* call; with no candidate it never asks.
LazyResolution ==
  \A p \in Procs :
    /\ asked[p] <= 1
    /\ (asked[p] > 0 \/ webhook_url[p] # <<>> \/ failure[p] = "resolve") =>
         articles_to_publish[p] # <<>>
    /\ failure[p] = "resolve" => DeliveredBy(p) = <<>>
    /\ DeliveredBy(p) # <<>> => (asked[p] = 1 /\ webhook_url[p] = HOOK)

\* A feed that holds items, none of them new: the invocation returned without
\* having asked for the target.
LazyResolutionWitness ==
  \E p \in Procs :
    /\ pc[p] = "done" /\ result[p] = "returned"
    /\ fetched[p] # 0 /\ Feeds[fetched[p]] # <<>>
    /\ articles_to_publish[p] = <<>>
    /\ asked[p] = 0 /\ delivered = <<>>
    /\ prev.saved /\ prev.delivered # {}

\* C17: an invocation writes the state at most once, and only as its last
\* step, after the publish loop has gone through every candidate (at least
\* one) and the pruning step has run; an invocation that finds no candidate
\* makes no delivery call and no write; and the stored state changes in no
\* other step than such a write.
SavedOnceAtEnd ==
  /\ [](\A p \in Procs :
          /\ saves[p] <= 1
          /\ saves[p] = 1 =>
               /\ pc[p] = "done" /\ result[p] = "returned"
               /\ published_count[p] >= 1
               /\ published_count[p] = Len(articles_to_publish[p])
               /\ presave[p] = articles_seen[p]
               /\ store = Stored(state[p])
          /\ (fetched[p] # 0 /\ articles_to_publish[p] = <<>>) =>
               /\ pc[p] = "done" /\ result[p] = "returned"
               /\ DeliveredBy(p) = <<>>
               /\ saves[p] = 0)
  /\ [][store' # store =>
          \E p \in Procs :
            /\ pc[p] = "save" /\ pc'[p] = "done"
            /\ saves[p] = 0 /\ saves'[p] = 1
            /\ published_count[p] >= 1]_vars

\* An invocation that found nothing new after one that published and saved:
\* it made no write, and the backend holds what the earlier one saved.
SavedOnceAtEndWitness ==
  \E p \in Procs :
    /\ pc[p] = "done" /\ fetched[p] # 0 /\ articles_to_publish[p] = <<>>
    /\ saves[p] = 0
    /\ prev.saved /\ prev.published # <<>>
    /\ LastN(StoredSeen, Len(prev.published)) = prev.published
    /\ loaded[p] = StoredSeen

\* C19: as long as an invocation that has made delivery calls has not saved,
\* the backend holds the seen-set the invocation loaded, so it does when the
\* invocation ends there, in the middle of a candidate or after the publish
\* loop; and when the invocation that follows
\* one that ended so is answered the same feed and gets through its publish
\* loop, it has delivered, to the last chunk, every identifier the earlier
\* one delivered a chunk of.
AtLeastOnce ==
  \A p \in Procs :
    /\ (DeliveredBy(p) # <<>> /\ saves[p] = 0) => StoredSeen = loaded[p]
    /\ (/\ ~prev.saved /\ prev.delivered # {}
        /\ fetched[p] # 0 /\ fetched[p] = prev.feed
        /\ pc[p] \in {"prune", "save"} \/ (pc[p] = "done" /\ saves[p] = 1)) =>
         /\ prev.delivered \subseteq Range(CompletionOrder)
         /\ prev.delivered \subseteq Range(Appended(p))

\* An invocation ended without saving after delivery calls for some of its
\* candidates, and the next one, answered the same feed, has delivered all of
\* them and more.
AtLeastOnceWitness ==
  \E p \in Procs :
    /\ ~prev.saved /\ prev.delivered # {}
    /\ fetched[p] = prev.feed
    /\ pc[p] = "done" /\ saves[p] = 1
    /\ Cardinality(prev.delivered) < Cardinality(Range(CompletionOrder))

(***************************************************************************)
(* Properties of overlapping invocations (checked under SpecOverlap)       *)
(***************************************************************************)
\* C18: nothing protects the state write.  The candidates of an invocation
\* are the eligible items against the seen-set it loaded, whatever the other
\* invocation has delivered or saved since; and an invocation that reaches
\* the save always writes, and what it writes is the seen-set it loaded
\* followed by its own identifiers, pruned, whatever the backend holds by
\* then.
UnprotectedWrite ==
  /\ [](\A p \in Procs :
          fetched[p] # 0 =>
            GuidsBefore(p, Len(articles_to_publish[p]) + 1)
              = EligibleOldestFirst(fetched[p], loaded[p]))
  /\ [][\A p \in Procs :
          (pc[p] = "save" /\ pc'[p] = "done") =>
            /\ saves'[p] = saves[p] + 1
            /\ store'.present
            /\ store'.body["articles_seen"]
                 = LastN(loaded[p] \o GuidsBefore(p, Len(articles_to_publish[p]) + 1),
                         MAX_ARTICLES_SEEN)]_vars

\* Both invocations loaded the empty state and both have saved; one
\* identifier was delivered by both, and an identifier that the invocation
\* which saved first published is not in the seen-set the backend holds.
UnprotectedWriteWitness ==
  \E p, q \in Procs :
    /\ p # q
    /\ pc[p] = "done" /\ saves[p] = 1 /\ loaded[p] = <<>>
    /\ pc[q] = "done" /\ saves[q] = 1 /\ loaded[q] = <<>>
    /\ \E g \in Range(Appended(p)) \cap Range(Appended(q)) :
         /\ \E i \in 1..Len(delivered) :
              delivered[i].guid = g /\ delivered[i].inv = invno[p]
         /\ \E i \in 1..Len(delivered) :
              delivered[i].guid = g /\ delivered[i].inv = invno[q]
    /\ StoredSeen = Appended(q)
    /\ \E g \in Range(Appended(p)) : g \notin Range(StoredSeen)

(***************************************************************************)
(* Properties of get_webhook_url (checked under SpecResolve)               *)
(***************************************************************************)
\* What the claimed classification gives for a reference; "starting with an
\* HTTP/HTTPS scheme" is read as the code tests it, startswith('http').
ClaimedResolution(ref, secret) ==
  IF StartsWith(ref, ARN_COLON)
  THEN (IF service_name(ref) = SECRETSMANAGER THEN [kind |-> "ok", url |-> secret]
        ELSE [kind |-> "NotImplementedError", url |-> <<>>])
  ELSE IF StartsWith(ref, HTTP) THEN [kind |-> "ok", url |-> ref]
  ELSE [kind |-> "ValueError", url |-> <<>>]

\* C9: every configured reference resolves to exactly one of: the fetched
\* secret (arn: with the secret-storage service), the resolution error (arn:
\* with another service), the reference itself (HTTP/HTTPS), the
\* configuration error (every other reference).
ResolutionClassified ==
  (/\ rs_out # NotCalled
   /\ rs_ref # Unset
   /\ rs_secret # ClientError
   /\ StartsWith(rs_ref, ARN_COLON) => service_name(rs_ref) # NoService)
    => /\ rs_out.kind = ClaimedResolution(rs_ref, rs_secret).kind
       /\ rs_out.url = ClaimedResolution(rs_ref, rs_secret).url

====
